---- MODULE Spec2Model ----
(***************************************************************************)
(* Model of app6.py: a Streamlit script that prices USD/INR FX options     *)
(* with the Garman-Kohlhagen formula, generates an option chain around     *)
(* spot and runs a single-option calculator.                               *)
(*                                                                         *)
(* Numbers.  The script computes in IEEE-754 doubles.  A double d of       *)
(* magnitude below 2^23 is held in fixed point as the integer d * 10^6     *)
(* (micro-units): at that magnitude the spacing of doubles (below 1e-9)    *)
(* is far finer than a micro-unit.  A double of a larger magnitude is      *)
(* held as an offset from a power of two: `binade` = e > 0 says that the   *)
(* spot and every value derived from it by adding the chain's offsets is   *)
(* 2^e plus the micro-unit offset stored.  What the finite precision of a  *)
(* double does at such a magnitude (an added constant is rounded to the    *)
(* spacing 2^(e-52), or absorbed) is modelled by FAdd and PlusEps.         *)
(***************************************************************************)
EXTENDS Integers, Sequences, FiniteSets, TLC

\* 1.0 in fixed point
Unit == 10^6

\* ---------------------------------------------------------------- bounds
\* spot is sampled at SubStep (0.00002) steps, MaxSub steps either side of
\* the default 83.20, so that it falls between the 4-decimal values the
\* strikes are rounded to
MaxSub == 3
\* days-to-expiry values offered by the widgets: 0, 30, .., 30 * MaxDays30
MaxDays30 == 1

\* ------------------------------------------------------- double arithmetic
Abs(x) == IF x < 0 THEN -x ELSE x
Max(a, b) == IF a >= b THEN a ELSE b

\* The binades the spot is sampled from.  0: |spot| < 2^23.  24: the
\* spacing of doubles (2^-28) exceeds 2e-9.  53: spacing 2.0.  55: spacing 8.0.
Binades == {0, 24, 53, 55}

\* spacing of the doubles in [2^e, 2^(e+1)), in micro-units; 1 where the
\* spacing is below the model's resolution (e < 32)
Quantum(e) == IF e >= 52 THEN (2^(e - 52)) * Unit ELSE 1

\* v rounded to the nearest multiple of q, ties to the even multiple
\* (2^e is an even multiple of the spacing, so parity of the offset decides)
RoundQ(v, q) ==
    LET lo == (v \div q) * q
        r  == v - lo
    IN  IF 2 * r < q THEN lo
        ELSE IF 2 * r > q THEN lo + q
        ELSE IF (lo \div q) % 2 = 0 THEN lo ELSE lo + q

\* x + c in double arithmetic, x a double of binade e, |c| small
FAdd(e, x, c) == RoundQ(x + c, Quantum(e))

\* x + 1e-9 in double arithmetic.  1e-9 is below a micro-unit: the result
\* is x and a flag saying whether it lies strictly above x.  From 2^24 on
\* half the spacing of doubles (2^(e-53)) exceeds 1e-9 and the sum rounds
\* back to x.
PlusEps(e, x) == [v |-> x, above |-> e < 24]

\* ceil(a / b) for b > 0
CeilDiv(a, b) == -((-a) \div b)

\* ------------------------------------------------------------ numpy
\* len(np.arange(start, stop, step)) = ceil((stop - start) / step), at least 0
ArangeLen(start, stop, stp) ==
    LET d == stop.v - start
        n == IF stop.above THEN (d \div stp) + 1 ELSE CeilDiv(d, stp)
    IN  Max(n, 0)

\* np.arange fills buffer[i] = start + i * delta, delta = (start + step) - start
Arange(e, start, stop, stp) ==
    LET n     == ArangeLen(start, stop, stp)
        delta == FAdd(e, start, stp) - start
    IN  [i \in 1..n |-> FAdd(e, start, (i - 1) * delta)]

\* x rounded to the nearest multiple of m, ties to the even multiple
RoundTo(x, m) == RoundQ(x, m)

\* np.round(x, 4) = rint(x * 1e4) / 1e4.  Below 2^32 this is the nearest
\* multiple of 0.0001.  From 2^52 on rint changes nothing and the product
\* and the quotient each round once: the result is x or a neighbour of x,
\* slip being -1, 0 or 1.
Round4(e, x, slip) ==
    IF e >= 52 THEN x + slip * Quantum(e) ELSE RoundTo(x, Unit \div 10000)

\* ------------------------------------------------------------ math library
\* Fixed-point counterparts of the double operations and of math.exp,
\* math.sqrt, math.log and math.erf.  Products and quotients are truncated
\* towards zero, so that each function keeps its symmetry (erf is odd).
Sgn(x) == IF x < 0 THEN -1 ELSE IF x > 0 THEN 1 ELSE 0

\* a * b
Mul(a, b) ==
    LET x  == Abs(a)
        y  == Abs(b)
        xh == x \div 1000
        xl == x % 1000
        yh == y \div 1000
        yl == y % 1000
    IN  Sgn(a) * Sgn(b) * (xh * yh + (xh * yl + xl * yh + (xl * yl) \div 1000) \div 1000)

RECURSIVE DivDigits(_, _, _, _)
DivDigits(r, b, k, acc) ==
    IF k = 0 THEN acc
    ELSE DivDigits((r * 10) % b, b, k - 1, acc * 10 + (r * 10) \div b)

\* a / b, b # 0
Div(a, b) ==
    Sgn(a) * Sgn(b) * DivDigits(Abs(a) % Abs(b), Abs(b), 6, Abs(a) \div Abs(b))

\* x / n for a whole number n > 0
DivInt(x, n) == Sgn(x) * (Abs(x) \div n)

RECURSIVE ExpSeries(_, _, _, _)
ExpSeries(y, k, term, acc) ==
    IF k > 12 \/ term = 0 THEN acc
    ELSE LET t == DivInt(Mul(term, y), k)
         IN  ExpSeries(y, k + 1, t, acc + t)

\* math.exp(y), |y| <= 2: the Taylor series; Exp(0) = 1 exactly
Exp(y) == ExpSeries(y, 1, Unit, Unit)

RECURSIVE IsqrtIn(_, _, _)
IsqrtIn(n, lo, hi) ==
    IF lo >= hi THEN lo
    ELSE LET mid == (lo + hi + 1) \div 2
         IN  IF mid * mid <= n THEN IsqrtIn(n, mid, hi) ELSE IsqrtIn(n, lo, mid - 1)

\* math.sqrt(x), 0 <= x <= 21
Sqrt(x) == IsqrtIn(x * 100, 0, 46340) * 100

\* ln 2
Ln2 == 693147

RECURSIVE Ln(_)
\* math.log(x), x > 0: halve or double into [1, 2), then
\* ln x = 2 atanh((x - 1) / (x + 1))
Ln(x) ==
    IF x >= 2 * Unit THEN Ln2 + Ln(x \div 2)
    ELSE IF x < Unit THEN Ln(2 * x) - Ln2
    ELSE LET y  == Div(x - Unit, x + Unit)
             y2 == Mul(y, y)
             y3 == Mul(y, y2)
             y5 == Mul(y3, y2)
             y7 == Mul(y5, y2)
             y9 == Mul(y7, y2)
         IN  2 * (y + DivInt(y3, 3) + DivInt(y5, 5) + DivInt(y7, 7) + DivInt(y9, 9))

\* math.erf(x), odd: for x >= 0, 1 - (1 + a1 x + a2 x^2 + a3 x^3 + a4 x^4)^-4
\* (Abramowitz & Stegun 7.1.27), 1 from x = 4 on
Erf(x) ==
    LET a  == Abs(x)
        a2 == Mul(a, a)
        a3 == Mul(a2, a)
        a4 == Mul(a3, a)
        den == Unit + Mul(278393, a) + Mul(230389, a2) + Mul(972, a3) + Mul(78108, a4)
        inv == Div(Unit, den)
        inv2 == Mul(inv, inv)
    IN  IF a >= 4 * Unit THEN Sgn(x) * Unit
        ELSE Sgn(x) * (Unit - Mul(inv2, inv2))

\* ------------------------------------------------------------ the pricer
\* Python's None
None == <<>>
Some(x) == <<x>>

norm_cdf(x) == Mul(Unit \div 2, Unit + Erf(Div(x, Sqrt(2 * Unit))))

\* IEEE infinity, and a finite magnitude of 2^24 or more: neither is held
\* in fixed point
Inf == 2147 * Unit
Beyond == 2000 * Unit

\* a call that returns the tuple ret, and a call that raises exc
Return(ret) == [err |-> "none", ret |-> ret]
Raise(exc) == [err |-> exc, ret |-> <<>>]

\* Degenerate with d1 and d2 reported as 0.0 instead of None
DegenerateZeroGreeks(S, K, T, rd, rf, option_type) ==
    LET disc_dom == Exp(Mul(-rd, T))
        disc_for == Exp(Mul(-rf, T))
        price == IF option_type = "Call"
                 THEN Max(0, Mul(S, disc_for) - Mul(K, disc_dom))
                 ELSE Max(0, Mul(K, disc_dom) - Mul(S, disc_for))
    IN  Return(<<price, Some(0), Some(0)>>)

\* Degenerate with the two discount factors exchanged
DegenerateSwapped(S, K, T, rd, rf, option_type) ==
    LET disc_dom == Exp(Mul(-rf, T))
        disc_for == Exp(Mul(-rd, T))
        price == IF option_type = "Call"
                 THEN Max(0, Mul(S, disc_for) - Mul(K, disc_dom))
                 ELSE Max(0, Mul(K, disc_dom) - Mul(S, disc_for))
    IN  Return(<<price, None, None>>)

\* the degenerate branch: the discounted intrinsic value, d1 and d2 None
Degenerate(S, K, T, rd, rf, option_type) ==
    LET disc_dom == Exp(Mul(-rd, T))
        disc_for == Exp(Mul(-rf, T))
        price == IF option_type = "Call"
                 THEN Max(0, Mul(S, disc_for) - Mul(K, disc_dom))
                 ELSE Max(0, Mul(K, disc_dom) - Mul(S, disc_for))
    IN  Return(<<price, None, None>>)

\* the standard branch's price, d1 and d2 known
StandardPrice(S, K, T, rd, rf, option_type, d1v, d2v) ==
    IF option_type = "Call"
    THEN Mul(Mul(S, Exp(Mul(-rf, T))), norm_cdf(d1v))
         - Mul(Mul(K, Exp(Mul(-rd, T))), norm_cdf(d2v))
    ELSE Mul(Mul(K, Exp(Mul(-rd, T))), norm_cdf(-d2v))
         - Mul(Mul(S, Exp(Mul(-rf, T))), norm_cdf(-d1v))

\* d1, from log(S / K) and sigma * sqrt(T)
D1(logSK, T, rd, rf, sigma, sigmaSqrtT) ==
    Div(logSK + Mul(rd - rf + Mul(Mul(Unit \div 2, sigma), sigma), T), sigmaSqrtT)

StandardFrom(S, K, T, rd, rf, option_type, d1v, sigmaSqrtT) ==
    Return(<<StandardPrice(S, K, T, rd, rf, option_type, d1v, d1v - sigmaSqrtT),
             Some(d1v), Some(d1v - sigmaSqrtT)>>)

StandardWith(S, K, T, rd, rf, sigma, option_type, logSK, sigmaSqrtT) ==
    StandardFrom(S, K, T, rd, rf, option_type,
                 D1(logSK, T, rd, rf, sigma, sigmaSqrtT), sigmaSqrtT)

\* the standard branch once log(S / K) is known
Standard(S, K, T, rd, rf, sigma, option_type, logSK) ==
    StandardWith(S, K, T, rd, rf, sigma, option_type, logSK, Mul(sigma, Sqrt(T)))

\* fx_option_price for |S|, |K| < 2^23.  numpyK: K is a numpy float64 (a
\* strike of the chain), whose division by zero gives inf or nan where a
\* Python float raises ZeroDivisionError.  math.log raises ValueError for
\* an argument that is zero or negative.
fx_option_price(S, K, T, rd, rf, sigma, option_type, numpyK) ==
    IF T <= 0 \/ sigma <= 0 THEN Degenerate(S, K, T, rd, rf, option_type)
    ELSE IF K = 0 /\ ~numpyK THEN Raise("ZeroDivisionError")
    ELSE IF K = 0 /\ S > 0
         \* S / K = inf, d1 = d2 = inf, norm_cdf(inf) = 1, norm_cdf(-inf) = 0
         THEN Return(<<IF option_type = "Call" THEN Mul(S, Exp(Mul(-rf, T))) ELSE 0,
                       Some(Inf), Some(Inf)>>)
    ELSE IF K = 0 \/ S = 0 \/ Sgn(S) # Sgn(K) THEN Raise("ValueError")
    ELSE Standard(S, K, T, rd, rf, sigma, option_type, Ln(Div(S, K)))

\* fx_option_price for S and K both 2^e plus a few units, e >= 24: S / K is
\* 1 to the model's resolution and no branch raises; the price is of the
\* magnitude of S
FarResult(r) == Return(<<Beyond, r[2], r[3]>>)

fx_option_price_far(T, rd, rf, sigma) ==
    IF T <= 0 \/ sigma <= 0 THEN Return(<<Beyond, None, None>>)
    ELSE FarResult(Standard(Unit, Unit, T, rd, rf, sigma, "Call", 0).ret)

\* ------------------------------------------------------------ the script
VARIABLES
    pc,          \* where the run of the script stands
    err,         \* the exception that ended the run, or "none"
    binade,      \* 0, or e when spot and the strikes are offsets from 2^e
    spot, vol, rd, rf, exp_days,   \* the sidebar inputs
    T,
    strikes, atm_strike, rows,     \* the option chain
    K_input, opt_type, vol_input, days_input, T_calc,   \* the calculator inputs
    price, d1, d2,                 \* the calculator's result
    greeks       \* what the calculator shows under the price

vars == <<pc, err, binade, spot, vol, rd, rf, exp_days, T, strikes, atm_strike,
          rows, K_input, opt_type, vol_input, days_input, T_calc, price, d1, d2,
          greeks>>

\* the values a user may set the "Spot Price" widget to
Spots(e) ==
    CASE e = 0  -> {832 * (Unit \div 10) + i * 20 : i \in (-MaxSub)..MaxSub}
                   \cup {84 * Unit, 2 * Unit, 3 * (Unit \div 2), -Unit}
      [] e = 24 -> {4 * Unit, 5 * Unit + Unit \div 5}
      [] e = 53 -> {4 * Unit, 6 * Unit}
      [] e = 55 -> {8 * Unit, 16 * Unit}

Vols == {8 * (Unit \div 100), 0}
DomesticRates == {65 * (Unit \div 1000), 0}
ForeignRates == {52 * (Unit \div 1000), 0}
Days == {30 * i : i \in 0..MaxDays30}
OptionTypes == {"Call", "Put"}

\* what the variables a run has not assigned yet hold
Fresh ==
    /\ err = "none"
    /\ T = 0
    /\ strikes = <<>>
    /\ atm_strike = 0
    /\ rows = <<>>
    /\ K_input = 0
    /\ opt_type = "Call"
    /\ vol_input = 0
    /\ days_input = 0
    /\ T_calc = 0
    /\ price = 0
    /\ d1 = None
    /\ d2 = None
    /\ greeks = "none"

\* a session opens with the widgets' defaults
Init ==
    /\ pc = "inputs"
    /\ binade = 0
    /\ spot = 832 * (Unit \div 10)
    /\ vol = 8 * (Unit \div 100)
    /\ rd = 65 * (Unit \div 1000)
    /\ rf = 52 * (Unit \div 1000)
    /\ exp_days = 30
    /\ Fresh

\* days / 365.0, floored at 0
YearFraction(days) == Max(DivInt(days * Unit, 365), 0)

\* the sidebar: the widgets return what the user last set
ReadInputs ==
    /\ pc = "inputs"
    /\ \E e \in Binades : \E s \in Spots(e) : binade' = e /\ spot' = s
    /\ vol' \in Vols
    /\ rd' \in DomesticRates
    /\ rf' \in ForeignRates
    /\ exp_days' \in Days
    /\ T' = YearFraction(exp_days')
    /\ pc' = "strikes"
    /\ UNCHANGED <<err, strikes, atm_strike, rows, K_input, opt_type, vol_input,
                   days_input, T_calc, price, d1, d2, greeks>>

step == Unit \div 4
lower(e, s) == FAdd(e, s, -2 * Unit)
upper(e, s) == FAdd(e, s, 3 * Unit)

\* np.round(np.arange(lower, upper + 1e-9, step), 4)
Strikes(e, s, slip) ==
    LET raw == Arange(e, lower(e, s), PlusEps(e, upper(e, s)), step)
    IN  [i \in 1..Len(raw) |-> Round4(e, raw[i], slip)]

\* AtmStrike with the key x - s, abs forgotten: the least strike
AtmStrikeNoAbs(ks, s) ==
    LET i == CHOOSE i \in 1..Len(ks) : \A j \in 1..Len(ks) : ks[i] - s <= ks[j] - s
    IN  ks[i]

\* min(ks, key=lambda x: abs(x - s)): the first element of the least key
AtmStrike(ks, s) ==
    LET i == CHOOSE i \in 1..Len(ks) :
                 /\ \A j \in 1..Len(ks) : Abs(ks[i] - s) <= Abs(ks[j] - s)
                 /\ \A j \in 1..(i - 1) : Abs(ks[j] - s) > Abs(ks[i] - s)
    IN  ks[i]

\* how np.round may slip at this magnitude
Slips(e) == IF e >= 52 THEN {-1, 0, 1} ELSE {0}

\* the strikes and the ATM strike; min() of an empty sequence raises
SetStrikes(ks) ==
    /\ strikes' = ks
    /\ IF Len(ks) = 0
       THEN /\ err' = "ValueError"
            /\ pc' = "crashed"
            /\ UNCHANGED atm_strike
       ELSE /\ atm_strike' = AtmStrike(ks, spot)
            /\ pc' = "rows"
            /\ UNCHANGED err

GenerateStrikes ==
    /\ pc = "strikes"
    /\ \E slip \in Slips(binade) : SetStrikes(Strikes(binade, spot, slip))
    /\ UNCHANGED <<binade, spot, vol, rd, rf, exp_days, T, rows, K_input, opt_type,
                   vol_input, days_input, T_calc, price, d1, d2, greeks>>

\* Status with the comparison against spot reversed
StatusReversed(K, atm, s) ==
    IF Abs(K - atm) <= 1 THEN "ATM"
    ELSE IF K > s THEN "ITM"
    ELSE "OTM"

\* the status of strike K: ATM within 1e-6 of the ATM strike
Status(K, atm, s) ==
    IF Abs(K - atm) <= 1 THEN "ATM"
    ELSE IF K < s THEN "ITM"
    ELSE "OTM"

\* fx_option_price as the chain calls it
ChainPrice(e, s, K, t, r_d, r_f, sigma, option_type) ==
    IF e = 0 THEN fx_option_price(s, K, t, r_d, r_f, sigma, option_type, TRUE)
    ELSE fx_option_price_far(t, r_d, r_f, sigma)

\* the row of strike K, or the exception a pricing call raised
AddRow(K, call, put) ==
    IF call.err # "none"
    THEN err' = call.err /\ pc' = "crashed" /\ UNCHANGED rows
    ELSE IF put.err # "none"
    THEN err' = put.err /\ pc' = "crashed" /\ UNCHANGED rows
    ELSE /\ rows' = Append(rows, [Strike |-> K, Call |-> call.ret[1],
                                  Put |-> put.ret[1],
                                  Status |-> Status(K, atm_strike, spot)])
         /\ UNCHANGED <<err, pc>>

\* one pass of the loop over the strikes: both prices, the status, the row
\* (round(price, 6) keeps the six decimals the model holds)
BuildRow ==
    /\ pc = "rows"
    /\ Len(rows) < Len(strikes)
    /\ AddRow(strikes[Len(rows) + 1],
              ChainPrice(binade, spot, strikes[Len(rows) + 1], T, rd, rf, vol, "Call"),
              ChainPrice(binade, spot, strikes[Len(rows) + 1], T, rd, rf, vol, "Put"))
    /\ UNCHANGED <<binade, spot, vol, rd, rf, exp_days, T, strikes, atm_strike,
                   K_input, opt_type, vol_input, days_input, T_calc, price, d1, d2,
                   greeks>>

\* the loop is over: the data frame is built and shown
ShowChain ==
    /\ pc = "rows"
    /\ Len(rows) = Len(strikes)
    /\ pc' = "calc"
    /\ UNCHANGED <<err, binade, spot, vol, rd, rf, exp_days, T, strikes, atm_strike,
                   rows, K_input, opt_type, vol_input, days_input, T_calc, price,
                   d1, d2, greeks>>

\* the values a user may set the calculator's widgets to
StrikeInputs(e, s, atm) == IF e = 0 THEN {atm, s - Unit, 0, -Unit} ELSE {atm}
VolInputs(v) == {v, 8 * (Unit \div 100), -8 * (Unit \div 100)}
DayInputs(d) == {d} \cup Days

\* fx_option_price as the calculator calls it
CalcPrice(e, s, K, t, r_d, r_f, sigma, option_type) ==
    IF e = 0 THEN fx_option_price(s, K, t, r_d, r_f, sigma, option_type, FALSE)
    ELSE fx_option_price_far(t, r_d, r_f, sigma)

\* the price and d1, d2 or the notice, or the exception the call raised
Show(r) ==
    IF r.err # "none"
    THEN /\ err' = r.err
         /\ pc' = "crashed"
         /\ UNCHANGED <<price, d1, d2, greeks>>
    ELSE /\ price' = r.ret[1]
         /\ d1' = r.ret[2]
         /\ d2' = r.ret[3]
         /\ greeks' = IF r.ret[2] = None \/ r.ret[3] = None
                      THEN "unavailable" ELSE "shown"
         /\ pc' = "done"
         /\ UNCHANGED err

\* the calculator: its widgets and the pricing call
Calculate ==
    /\ pc = "calc"
    /\ K_input' \in StrikeInputs(binade, spot, atm_strike)
    /\ opt_type' \in OptionTypes
    /\ vol_input' \in VolInputs(vol)
    /\ days_input' \in DayInputs(exp_days)
    /\ T_calc' = YearFraction(days_input')
    /\ Show(CalcPrice(binade, spot, K_input', T_calc', rd, rf, vol_input', opt_type'))
    /\ UNCHANGED <<binade, spot, vol, rd, rf, exp_days, T, strikes, atm_strike, rows>>

\* a widget changes and Streamlit runs the script again from the top
Rerun ==
    /\ pc \in {"done", "crashed"}
    /\ pc' = "inputs"
    /\ err' = "none"
    /\ T' = 0
    /\ strikes' = <<>>
    /\ atm_strike' = 0
    /\ rows' = <<>>
    /\ K_input' = 0
    /\ opt_type' = "Call"
    /\ vol_input' = 0
    /\ days_input' = 0
    /\ T_calc' = 0
    /\ price' = 0
    /\ d1' = None
    /\ d2' = None
    /\ greeks' = "none"
    /\ UNCHANGED <<binade, spot, vol, rd, rf, exp_days>>

Next == ReadInputs \/ GenerateStrikes \/ BuildRow \/ ShowChain \/ Calculate \/ Rerun

Spec == Init /\ [][Next]_vars

\* ------------------------------------------------------------ the claims
Degen(t, sigma) == t <= 0 \/ sigma <= 0

\* the loop over the strikes ran to its end
ChainComplete == Len(strikes) > 0 /\ Len(rows) = Len(strikes)
\* the strikes stage is over, by an assignment or by an exception
StrikesDone == pc \notin {"inputs", "strikes"}
\* the calculator's pricing call returned, or raised
CalcReturned == pc = "done"
CalcRaised == pc = "crashed" /\ ChainComplete
\* a pricing call of the chain raised
RowRaised == pc = "crashed" /\ Len(strikes) > 0 /\ Len(rows) < Len(strikes)

AtmRows == {i \in 1..Len(rows) : rows[i].Status = "ATM"}

\* C1: a generated chain has exactly one row whose status is ATM, whatever
\* the spot.
C1_ExactlyOneAtm == ChainComplete => Cardinality(AtmRows) = 1

\* C2: the calculator's pricing call fails, and returns no price, whenever
\* spot <= 0 or strike <= 0 on the non-degenerate path (any exception is
\* taken for the InvalidInput failure).
C2_NonPositiveRejected ==
    ( /\ CalcReturned \/ CalcRaised
      /\ binade = 0
      /\ ~Degen(T_calc, vol_input)
      /\ spot <= 0 \/ K_input <= 0 )
    => CalcRaised

\* C3: a pricing call returns d1 and d2 both None exactly when T <= 0 or
\* sigma <= 0 and both present otherwise, and on the degenerate path it
\* returns and never raises, whatever the spot and the strike.
C3_GreeksIffStandard ==
    /\ CalcReturned => /\ (d1 = None) <=> Degen(T_calc, vol_input)
                       /\ (d2 = None) <=> Degen(T_calc, vol_input)
                       /\ (greeks = "unavailable") <=> Degen(T_calc, vol_input)
    /\ CalcRaised => ~Degen(T_calc, vol_input)
    /\ RowRaised => ~Degen(T, vol)

C3_Witness ==
    /\ CalcReturned
    /\ binade = 0
    /\ Degen(T_calc, vol_input)
    /\ spot <= 0
    /\ K_input <= 0
    /\ d1 = None
    /\ d2 = None

\* the discounted intrinsic value of the degenerate branch
Intrinsic(S, K, t, r_d, r_f, option_type) ==
    IF option_type = "Call"
    THEN Max(0, Mul(S, Exp(Mul(-r_f, t))) - Mul(K, Exp(Mul(-r_d, t))))
    ELSE Max(0, Mul(K, Exp(Mul(-r_d, t))) - Mul(S, Exp(Mul(-r_f, t))))

\* C4: when T <= 0 or sigma <= 0 the price is the discounted intrinsic
\* value, max(0, S e^(-rf T) - K e^(-rd T)) for a Call and
\* max(0, K e^(-rd T) - S e^(-rf T)) for a Put; it is never negative, and at
\* T = 0 it is max(0, S - K) for a Call and max(0, K - S) for a Put.
C4_DiscountedIntrinsic ==
    /\ (CalcReturned /\ binade = 0 /\ Degen(T_calc, vol_input)) =>
         /\ price = Intrinsic(spot, K_input, T_calc, rd, rf, opt_type)
         /\ price >= 0
         /\ T_calc = 0 =>
              price = IF opt_type = "Call" THEN Max(0, spot - K_input)
                      ELSE Max(0, K_input - spot)
    /\ (binade = 0 /\ Degen(T, vol)) =>
         \A i \in 1..Len(rows) :
            /\ rows[i].Call = Intrinsic(spot, rows[i].Strike, T, rd, rf, "Call")
            /\ rows[i].Put = Intrinsic(spot, rows[i].Strike, T, rd, rf, "Put")
            /\ rows[i].Call >= 0
            /\ rows[i].Put >= 0

\* S = 84, K = 83, T = 0, Call: the price is 1.0
C4_Witness ==
    /\ CalcReturned
    /\ binade = 0
    /\ spot = 84 * Unit
    /\ K_input = 83 * Unit
    /\ T_calc = 0
    /\ opt_type = "Call"
    /\ price = Unit
    /\ d1 = None

\* C6: a generated chain has 21 rows, one for each grid point from
\* spot - 2.0 to spot + 3.0 in steps of 0.25 (rounded to 4 decimals), none
\* skipped or repeated, whatever the spot.
C6_TwentyOneRows ==
    ChainComplete =>
        /\ Len(rows) = 21
        /\ \A i \in 1..Len(rows) :
              Abs(rows[i].Strike - (spot - 2 * Unit + (i - 1) * step)) <= Unit \div 20000

\* C7: an empty or inverted strike range (upper <= lower) gives an empty
\* chain, zero rows, and no error.
C7_EmptyRangeNoError ==
    (StrikesDone /\ upper(binade, spot) <= lower(binade, spot))
    => (err = "none" /\ pc # "crashed" /\ Len(rows) = 0)

C9_StatusRule ==
    \A i \in 1..Len(rows) :
        LET K == rows[i].Strike
        IN  /\ rows[i].Status \in {"ATM", "ITM", "OTM"}
            /\ rows[i].Status = "ATM" <=> Abs(K - atm_strike) <= 1
            /\ rows[i].Status = "ITM" <=> (Abs(K - atm_strike) > 1 /\ K < spot)
            /\ rows[i].Status = "OTM" <=> (Abs(K - atm_strike) > 1 /\ K >= spot)

C9_Witness ==
    /\ ChainComplete
    /\ binade = 0
    /\ \E i, j, k \in 1..Len(rows) :
          /\ rows[i].Status = "ITM"
          /\ rows[j].Status = "ATM"
          /\ rows[k].Status = "OTM"

\* C10: in ascending strike order the statuses read ITM.., ATM, OTM..: every
\* row before the ATM row is ITM and every row after it is OTM.
C10_ItmAtmOtm ==
    \A i, j \in 1..Len(rows) :
        /\ (rows[i].Status = "ATM" /\ j < i) => rows[j].Status = "ITM"
        /\ (rows[i].Status = "ATM" /\ j > i) => rows[j].Status = "OTM"
        /\ (rows[i].Status = "OTM" /\ j > i) => rows[j].Status = "OTM"

====
